---------------------------- MODULE Spec2Model ----------------------------
(***************************************************************************)
(* A model of ChatSF: the SQL-to-SOQL translator, src/sql2soql.py, the      *)
(* query loop around it, src/salesforce.py, and the chat loop, src/gpt.py. *)
(*                                                                         *)
(* Text is modelled at character level: a Python str is a sequence of      *)
(* one-character strings, and every regular expression of the source is    *)
(* an operator that scans such a sequence the way re.search / re.findall   *)
(* do.  Positions are 1-based here; a Python `match.end()` e corresponds   *)
(* to the 1-based index e+1 of the first character after the match.        *)
(*                                                                         *)
(* One call of sql2soql is a run of the state machine                      *)
(*   extract -> wildcard -> countstar -> forceid -> foreignkeys -> prune   *)
(*           -> dates -> assemble -> returned                              *)
(* with `raised` reached from extract when a mandatory regex finds no      *)
(* match (the source then dereferences None and raises AttributeError).    *)
(*                                                                         *)
(* Spec and SpecDates explore calls of sql2soql on its own.  SpecQuery     *)
(* explores ask_database: the translation, then the retry loop of          *)
(* do_query against a remote store that answers, fails or expires.         *)
(* SpecGpt explores ask_gpt against a model that answers or asks for       *)
(* function calls.                                                         *)
(***************************************************************************)
EXTENDS Integers, Sequences, FiniteSets, TLC

VARIABLES
    sql_in,         \* the sql argument as passed by the caller
    table2columns,  \* the caller's dict: table name -> list of column names
    add_id,         \* argument add_id
    hard_limit,     \* argument hard_limit
    call,           \* description of the call: how sql_in was built, and the dict at call time
    pc,             \* position inside sql2soql
    sql,            \* local `sql`: the part of the statement not yet consumed
    fields,         \* local `fields`: the field-list text
    list_fields,    \* local `list_fields`
    aliased,        \* TRUE when list_fields is the very list object table2columns[table]
    aggregate,      \* local `aggregate`
    table,          \* local `table`
    where,          \* local `where`   (None or Some(text))
    groupby,        \* local `groupby` (None or Some(text))
    orderby,        \* local `orderby` (None or Some(text))
    limit,          \* local `limit`   (None or Some(digits))
    result,         \* the returned statement (None until assembled)
    \* SalesforceFunctions (src/salesforce.py)
    q_pc,           \* position inside ask_database / do_query
    retries,        \* local `retries` of do_query
    recs,           \* local `recs` of do_query (None or Some(records))
    sf,             \* self.sf: the number of the session in use
    sent,           \* the statements the remote store received in this call, with their outcome
    answer,         \* what ask_database returned (None until it returns)
    queries,        \* calls of ask_database so far
    \* OpenAI (src/gpt.py)
    g_pc,           \* position inside ask_gpt / call_gpt_handle_functions
    history,        \* self.history
    history_max,    \* self.history_max
    messages,       \* local `messages` of ask_gpt, `inbound_message` of call_gpt_handle_functions
    response,       \* the message of the latest response of call_gpt (None before the first)
    said,           \* what ask_gpt returned (None until it returns)
    asks,           \* calls of ask_gpt so far
    requested,      \* function calls the model asked for in this call of ask_gpt
    executed,       \* function calls executed in this call of ask_gpt
    log             \* every entry ever appended to self.history, in order

queryVars == <<q_pc, retries, recs, sf, sent, answer, queries>>
gptVars == <<g_pc, history, history_max, messages, response, said, asks, requested, executed, log>>
vars == <<sql_in, table2columns, add_id, hard_limit, call, pc, sql, fields, list_fields,
          aliased, aggregate, table, where, groupby, orderby, limit, result, queryVars, gptVars>>

(***************************************************************************)
(* Python values                                                           *)
(***************************************************************************)
None == <<>>
Some(x) == <<x>>
IsNone(o) == Len(o) = 0
Val(o) == o[1]

(***************************************************************************)
(* Characters                                                              *)
(***************************************************************************)
UpperToLower ==
    [c \in {"A","B","C","D","E","F","G","H","I","J","K","L","M",
            "N","O","P","Q","R","S","T","U","V","W","X","Y","Z"} |->
        CASE c = "A" -> "a" [] c = "B" -> "b" [] c = "C" -> "c" [] c = "D" -> "d"
          [] c = "E" -> "e" [] c = "F" -> "f" [] c = "G" -> "g" [] c = "H" -> "h"
          [] c = "I" -> "i" [] c = "J" -> "j" [] c = "K" -> "k" [] c = "L" -> "l"
          [] c = "M" -> "m" [] c = "N" -> "n" [] c = "O" -> "o" [] c = "P" -> "p"
          [] c = "Q" -> "q" [] c = "R" -> "r" [] c = "S" -> "s" [] c = "T" -> "t"
          [] c = "U" -> "u" [] c = "V" -> "v" [] c = "W" -> "w" [] c = "X" -> "x"
          [] c = "Y" -> "y" [] c = "Z" -> "z"]

LowerLetters == {UpperToLower[c] : c \in DOMAIN UpperToLower}
Digits == {"0","1","2","3","4","5","6","7","8","9"}

\* str.lower() on one character; also what re.IGNORECASE compares
Lower(c) == IF c \in DOMAIN UpperToLower THEN UpperToLower[c] ELSE c
LowerStr(s) == [i \in 1..Len(s) |-> Lower(s[i])]

\* the regex classes \s, \w, \d and [\w\d_\.]
IsSpace(c) == c \in {" ", "\t", "\n"}
IsDigit(c) == c \in Digits
IsWord(c) == c \in DOMAIN UpperToLower \/ c \in LowerLetters \/ c \in Digits \/ c = "_"
IsFieldChar(c) == IsWord(c) \/ c = "."

(***************************************************************************)
(* Strings                                                                 *)
(***************************************************************************)
\* s[e:] and s[:j] for 1-based e, j (j exclusive)
From(s, e) == SubSeq(s, e, Len(s))
Upto(s, j) == SubSeq(s, 1, j - 1)

\* the first index >= i whose character is not of the class, Len(s)+1 if none
SkipSpace(s, i) ==
    CHOOSE j \in i..(Len(s) + 1) :
        /\ \A k \in i..(j - 1) : IsSpace(s[k])
        /\ (j = Len(s) + 1 \/ ~IsSpace(s[j]))
SkipWord(s, i) ==
    CHOOSE j \in i..(Len(s) + 1) :
        /\ \A k \in i..(j - 1) : IsWord(s[k])
        /\ (j = Len(s) + 1 \/ ~IsWord(s[j]))
SkipDigits(s, i) ==
    CHOOSE j \in i..(Len(s) + 1) :
        /\ \A k \in i..(j - 1) : IsDigit(s[k])
        /\ (j = Len(s) + 1 \/ ~IsDigit(s[j]))
SkipFieldChars(s, i) ==
    CHOOSE j \in i..(Len(s) + 1) :
        /\ \A k \in i..(j - 1) : IsFieldChar(s[k])
        /\ (j = Len(s) + 1 \/ ~IsFieldChar(s[j]))

\* str.strip()
Strip(s) ==
    LET b == SkipSpace(s, 1)
        e == IF b > Len(s) THEN b - 1
             ELSE CHOOSE j \in b..Len(s) :
                     ~IsSpace(s[j]) /\ \A k \in (j + 1)..Len(s) : IsSpace(s[k])
    IN  SubSeq(s, b, e)

\* the literal lit (given in lower case) at position i, ignoring case
MatchesAt(s, i, lit) ==
    /\ i >= 1
    /\ i + Len(lit) - 1 <= Len(s)
    /\ \A k \in 1..Len(lit) : Lower(s[i + k - 1]) = lit[k]

\* the literal lit at position i, case-sensitive
MatchesExactAt(s, i, lit) ==
    /\ i >= 1
    /\ i + Len(lit) - 1 <= Len(s)
    /\ \A k \in 1..Len(lit) : s[i + k - 1] = lit[k]

\* `x in s` for str s and x
Contains(s, x) == \E i \in 1..Len(s) : MatchesExactAt(s, i, x)

\* s.endswith(x)
EndsWith(s, x) == Len(x) <= Len(s) /\ SubSeq(s, Len(s) - Len(x) + 1, Len(s)) = x

\* x in lst, for a list of strings
Member(lst, x) == \E i \in 1..Len(lst) : lst[i] = x

\* sep.join(lst)
RECURSIVE Join(_, _)
Join(lst, sep) ==
    IF Len(lst) = 0 THEN <<>>
    ELSE IF Len(lst) = 1 THEN lst[1]
    ELSE lst[1] \o sep \o Join(Tail(lst), sep)

\* str(n) for an integer n
RECURSIVE NatStr(_)
NatStr(n) ==
    LET d == CHOOSE c \in Digits :
                 c = CASE n % 10 = 0 -> "0" [] n % 10 = 1 -> "1" [] n % 10 = 2 -> "2"
                       [] n % 10 = 3 -> "3" [] n % 10 = 4 -> "4" [] n % 10 = 5 -> "5"
                       [] n % 10 = 6 -> "6" [] n % 10 = 7 -> "7" [] n % 10 = 8 -> "8"
                       [] OTHER -> "9"
    IN  IF n < 10 THEN <<d>> ELSE NatStr(n \div 10) \o <<d>>
IntStr(n) == IF n < 0 THEN <<"-">> \o NatStr(-n) ELSE NatStr(n)

(***************************************************************************)
(* The regular expressions of Part 1                                       *)
(***************************************************************************)
\* A keyword pattern w1\s+w2\s+... (re.IGNORECASE) tried at position i: the index
\* after the match, 0 when it does not match there.
RECURSIVE KwMatchEnd(_, _, _)
KwMatchEnd(s, i, words) ==
    IF Len(words) = 0 THEN i
    ELSE LET w == Head(words)
             e == i + Len(w)
         IN  IF MatchesAt(s, i, w) /\ e <= Len(s) /\ IsSpace(s[e])
             THEN KwMatchEnd(s, SkipSpace(s, e), Tail(words))
             ELSE 0

\* selector.search(s) for a keyword pattern: the leftmost start, 0 for None
RECURSIVE KwSearchFrom(_, _, _)
KwSearchFrom(s, i, words) ==
    IF i > Len(s) THEN 0
    ELSE IF KwMatchEnd(s, i, words) # 0 THEN i
    ELSE KwSearchFrom(s, i + 1, words)
KwSearch(s, words) == KwSearchFrom(s, 1, words)

\* `$` without re.MULTILINE: the end of the string, or just before a final newline
AtDollar(s, j) == j = Len(s) + 1 \/ (j = Len(s) /\ s[j] = "\n")

\* match.end(1) of (.*?)(K1|K2|...|$): the lazy group ends at the first position
\* where one of the keywords, or `$`, matches
RECURSIVE TerminatorFrom(_, _, _)
TerminatorFrom(s, j, kws) ==
    IF (\E kw \in kws : MatchesAt(s, j, kw)) \/ AtDollar(s, j) THEN j
    ELSE TerminatorFrom(s, j + 1, kws)
TerminatorPos(s, kws) == TerminatorFrom(s, 1, kws)

\* (\(.*?\)){0,1} tried at position w: the index after the first ")" when s[w] is
\* "(" and no newline lies in between, else w (the group matches zero times)
ParenEnd(s, w) ==
    IF w <= Len(s) /\ s[w] = "("
       /\ \E j \in (w + 1)..Len(s) :
              s[j] = ")" /\ \A k \in (w + 1)..(j - 1) : s[k] # "\n"
    THEN 1 + CHOOSE j \in (w + 1)..Len(s) :
                 s[j] = ")" /\ \A k \in (w + 1)..(j - 1) : s[k] # ")" /\ s[k] # "\n"
    ELSE w

\* re.findall('(?i)\s*(\*|[\w\d_\.]+(\(.*?\)){0,1})\s*', s), group 1 of every match,
\* scanning from position p
RECURSIVE FindFields(_, _)
FindFields(s, p) ==
    IF p > Len(s) THEN <<>>
    ELSE LET q == SkipSpace(s, p) IN
         IF q <= Len(s) /\ s[q] = "*"
         THEN <<SubSeq(s, q, q)>> \o FindFields(s, SkipSpace(s, q + 1))
         ELSE IF q <= Len(s) /\ IsFieldChar(s[q])
         THEN LET e == ParenEnd(s, SkipFieldChars(s, q))
              IN  <<SubSeq(s, q, e - 1)>> \o FindFields(s, SkipSpace(s, e))
         ELSE FindFields(s, p + 1)

\* (count\(|avg\(|count_distinct\(|min\(|max\(|sum\() with re.IGNORECASE
AggregateCalls ==
    {<<"c", "o", "u", "n", "t", "(">>, <<"a", "v", "g", "(">>, <<"c", "o", "u", "n", "t", "_", "d", "i", "s", "t", "i", "n", "c", "t", "(">>, <<"m", "i", "n", "(">>, <<"m", "a", "x", "(">>, <<"s", "u", "m", "(">>}
\* the pattern of line 67 compiled without re.IGNORECASE
IsAggregate_CaseSensitive(text) ==
    \E i \in 1..Len(text) : \E kw \in AggregateCalls : MatchesExactAt(text, i, kw)

IsAggregate(text) ==
    \E i \in 1..Len(text) : \E kw \in AggregateCalls : MatchesAt(text, i, kw)

\* (FROM\s+)(\w+)\s* : the leftmost position where it matches, 0 for None
FromTableEnd(s, i) ==
    LET e == KwMatchEnd(s, i, <<<<"f", "r", "o", "m">>>>)
    IN  IF e # 0 /\ e <= Len(s) /\ IsWord(s[e]) THEN e ELSE 0
RECURSIVE FromTableSearchFrom(_, _)
FromTableSearchFrom(s, i) ==
    IF i > Len(s) THEN 0
    ELSE IF FromTableEnd(s, i) # 0 THEN i
    ELSE FromTableSearchFrom(s, i + 1)
FromTableSearch(s) == FromTableSearchFrom(s, 1)

\* (LIMIT\s+)(\d+)\s* : the leftmost position where it matches, 0 for None
LimitEnd(s, i) ==
    LET e == KwMatchEnd(s, i, <<<<"l", "i", "m", "i", "t">>>>)
    IN  IF e # 0 /\ e <= Len(s) /\ IsDigit(s[e]) THEN e ELSE 0
RECURSIVE LimitSearchFrom(_, _)
LimitSearchFrom(s, i) ==
    IF i > Len(s) THEN 0
    ELSE IF LimitEnd(s, i) # 0 THEN i
    ELSE LimitSearchFrom(s, i + 1)
LimitSearch(s) == LimitSearchFrom(s, 1)

(***************************************************************************)
(* Part 1: parse the SQL statement                                         *)
(***************************************************************************)
\* lines 50-54 made tolerant: without a SELECT the whole text is taken as what follows it
AfterSelect_Guess(s) ==
    LET i == KwSearch(s, <<<<"s", "e", "l", "e", "c", "t">>>>)
    IN  IF i = 0 THEN Some(s) ELSE Some(From(s, KwMatchEnd(s, i, <<<<"s", "e", "l", "e", "c", "t">>>>)))

\* lines 50-54: what is left after "select\s+"; None when SELECT is not found
AfterSelect(s) ==
    LET i == KwSearch(s, <<<<"s", "e", "l", "e", "c", "t">>>>)
    IN  IF i = 0 THEN None ELSE Some(From(s, KwMatchEnd(s, i, <<<<"s", "e", "l", "e", "c", "t">>>>)))

\* lines 56-60: the position where "(.*?)from\s+" ends its group 1; 0 for None
FieldsEnd(s) == KwSearch(s, <<<<"f", "r", "o", "m">>>>)

\* An optional clause (lines 77-108): when the keyword pattern is found, the clause
\* text is what follows it up to the first terminator, stripped, and the statement
\* continues at the terminator.
ClauseOf(s, words, terminators) ==
    LET i == KwSearch(s, words) IN
    IF i = 0 THEN [text |-> None, rest |-> s]
    ELSE LET body == From(s, KwMatchEnd(s, i, words))
             j == TerminatorPos(body, terminators)
         IN  [text |-> Some(Strip(Upto(body, j))), rest |-> From(body, j)]

WhereClause(s) == ClauseOf(s, <<<<"w", "h", "e", "r", "e">>>>, {<<"g", "r", "o", "u", "p">>, <<"o", "r", "d", "e", "r">>, <<"l", "i", "m", "i", "t">>})
GroupByClause(s) == ClauseOf(s, <<<<"g", "r", "o", "u", "p">>, <<"b", "y">>>>, {<<"o", "r", "d", "e", "r">>, <<"l", "i", "m", "i", "t">>})
OrderByClause(s) == ClauseOf(s, <<<<"o", "r", "d", "e", "r">>, <<"b", "y">>>>, {<<"l", "i", "m", "i", "t">>})

\* lines 110-117
ExplicitLimit(s) ==
    LET i == LimitSearch(s) IN
    IF i = 0 THEN None
    ELSE LET e == LimitEnd(s, i) IN Some(SubSeq(s, e, SkipDigits(s, e) - 1))
\* lines 114-117 with the default cap tested before the explicit LIMIT
ResolveLimit_CapFirst(s, agg, cap) ==
    IF ~agg /\ cap > 0 THEN Some(IntStr(cap))
    ELSE ExplicitLimit(s)

\* lines 114-117 with `not aggregate` written as `aggregate`
ResolveLimit_CapForAggregates(s, agg, cap) ==
    IF ~IsNone(ExplicitLimit(s)) THEN ExplicitLimit(s)
    ELSE IF agg /\ cap > 0 THEN Some(IntStr(cap))
    ELSE None

\* lines 116-117 with `hard_limit > 0` written as `hard_limit >= 0`
ResolveLimit_ZeroCap(s, agg, cap) ==
    IF ~IsNone(ExplicitLimit(s)) THEN ExplicitLimit(s)
    ELSE IF ~agg /\ cap >= 0 THEN Some(IntStr(cap))
    ELSE None

ResolveLimit(s, agg, cap) ==
    IF ~IsNone(ExplicitLimit(s)) THEN ExplicitLimit(s)
    ELSE IF ~agg /\ cap > 0 THEN Some(IntStr(cap))
    ELSE None

\* The whole of Part 1, lines 48-117.  ok = FALSE when a mandatory pattern finds
\* nothing, which the source turns into an AttributeError on None.
Parse(s, cap) ==
    LET s1 == AfterSelect(s) IN
    IF IsNone(s1) THEN [ok |-> FALSE]
    ELSE LET j == FieldsEnd(Val(s1)) IN
    IF j = 0 THEN [ok |-> FALSE]
    ELSE LET ftext == Strip(Upto(Val(s1), j))
             s2 == From(Val(s1), j)
             t == FromTableSearch(s2)
         IN
    IF t = 0 THEN [ok |-> FALSE]
    ELSE LET tb == FromTableEnd(s2, t)
             te == SkipWord(s2, tb)
             s3 == From(s2, SkipSpace(s2, te))
             w == WhereClause(s3)
             g == GroupByClause(w.rest)
             o == OrderByClause(g.rest)
             agg == IsAggregate(ftext)
         IN  [ok |-> TRUE,
              fields |-> ftext,
              list_fields |-> FindFields(ftext, 1),
              aggregate |-> agg,
              table |-> SubSeq(s2, tb, te - 1),
              where |-> w.text,
              groupby |-> g.text,
              orderby |-> o.text,
              limit |-> ResolveLimit(o.rest, agg, cap),
              rest |-> o.rest]

(***************************************************************************)
(* Part 2: the heuristics                                                  *)
(***************************************************************************)
ColId == <<"I", "d">>

\* line 125: table2columns is not None and table in table2columns
Known(t2c, t) == t \in DOMAIN t2c

\* line 124
IsWildcard(ftext) == ftext = <<"*">>

\* line 129
AllFields == <<"F", "I", "E", "L", "D", "S", "(", "A", "L", "L", ")">>

\* line 130 left out: Id is not marked as present
MarkIdPresent_Omitted(lst) == lst

\* line 130: "So we won't try to add Id and get an error"
MarkIdPresent(lst) == Append(lst, ColId)

\* line 133
IsCountStar(ftext) == LowerStr(ftext) = <<"c", "o", "u", "n", "t", "(", "*", ")">>

\* line 138
ForceIdApplies(lst, agg, addid) == ~Member(lst, ColId) /\ ~agg /\ addid

\* line 143 with the test of `aggregate` inverted
ForeignKeysApply_AggregateOnly(agg, addid, t2c, t) == agg /\ addid /\ Known(t2c, t)

\* line 143
ForeignKeysApply(agg, addid, t2c, t) == (~agg) /\ addid /\ Known(t2c, t)

\* line 145
IsKeyColumn(f) == EndsWith(f, <<"I", "d">>) \/ EndsWith(f, <<"I", "d", "_", "_", "c">>)

\* lines 144-148: `for f in table2columns[table]`, from index i on.  When list_fields
\* is the dict's own list (alias) the loop runs over the list it appends to.
RECURSIVE ForeignKeyLoop(_, _, _, _, _)
ForeignKeyLoop(cols, lst, ftext, i, alias) ==
    LET over == IF alias THEN lst ELSE cols IN
    IF i > Len(over) THEN [fields |-> ftext, list_fields |-> lst]
    ELSE LET f == over[i] IN
         IF IsKeyColumn(f) /\ ~Member(lst, f)
         THEN ForeignKeyLoop(cols, Append(lst, f), ftext \o <<",", " ">> \o f, i + 1, alias)
         ELSE ForeignKeyLoop(cols, lst, ftext, i + 1, alias)

\* list.remove(x): drops the first element equal to x
RemoveFirst(lst, x) ==
    LET k == CHOOSE i \in 1..Len(lst) : lst[i] = x /\ \A j \in 1..(i - 1) : lst[j] # x
    IN  SubSeq(lst, 1, k - 1) \o SubSeq(lst, k + 1, Len(lst))

\* line 154-155: the column is one the loop removes
IsHallucinated(c, cols) == ~Contains(c, <<"(">>) /\ ~Member(cols, c)

\* lines 153-156: `for c in list_fields`, a list iterator at index i over the list
\* that the body shrinks.  When list_fields is the dict's own list (alias), cols
\* is that same list.
RECURSIVE PruneLoop(_, _, _, _)
PruneLoop(lst, cols, i, alias) ==
    IF i > Len(lst) THEN lst
    ELSE LET c == lst[i] IN
         IF IsHallucinated(c, IF alias THEN lst ELSE cols)
         THEN PruneLoop(RemoveFirst(lst, c), cols, i + 1, alias)
         ELSE PruneLoop(lst, cols, i + 1, alias)

(***************************************************************************)
(* Part 2, the WHERE clause: lines 161-177                                 *)
(***************************************************************************)
\* str.replace(old, new) from position p on
RECURSIVE ReplaceAll(_, _, _, _)
ReplaceAll(s, old, new, p) ==
    IF p > Len(s) THEN <<>>
    ELSE IF MatchesExactAt(s, p, old)
         THEN new \o ReplaceAll(s, old, new, p + Len(old))
         ELSE <<s[p]>> \o ReplaceAll(s, old, new, p + 1)

\* The patterns of lines 166-169: an operator, \s*, a name, and then the first of
\* the alternative endings that matches (the optional group is greedy).
PatMonthEnd == [op |-> <<"<", "=">>, name |-> <<"T", "H", "I", "S", "_", "M", "O", "N", "T", "H", "_", "E", "N", "D">>, endings |-> <<<<>>>>]
PatMonthStart == [op |-> <<">", "=">>, name |-> <<"T", "H", "I", "S", "_", "M", "O", "N", "T", "H", "_", "S", "T", "A", "R", "T">>, endings |-> <<<<>>>>]
PatLastDay == [op |-> <<"<", "=">>, name |-> <<"L", "A", "S", "T", "_", "D", "A", "Y", "(", "T", "O", "D", "A", "Y">>, endings |-> <<<<"(", ")", ")">>, <<")">>>>]
PatFirstDay == [op |-> <<">", "=">>, name |-> <<"F", "I", "R", "S", "T", "_", "D", "A", "Y", "(", "T", "O", "D", "A", "Y">>, endings |-> <<<<"(", ")", ")">>, <<")">>>>]

\* the index after a match of pat at position i, 0 when it does not match there
PatMatchEnd(s, i, pat) ==
    IF ~MatchesExactAt(s, i, pat.op) THEN 0
    ELSE LET n == SkipSpace(s, i + Len(pat.op)) IN
         IF ~MatchesExactAt(s, n, pat.name) THEN 0
         ELSE LET e == n + Len(pat.name)
                  fits == {k \in 1..Len(pat.endings) :
                              Len(pat.endings[k]) = 0 \/ MatchesExactAt(s, e, pat.endings[k])}
              IN  IF fits = {} THEN 0
                  ELSE e + Len(pat.endings[CHOOSE k \in fits : \A m \in fits : k <= m])

\* re.sub(pat, new, s) from position p on
RECURSIVE ReSub(_, _, _, _)
ReSub(s, pat, new, p) ==
    IF p > Len(s) THEN <<>>
    ELSE IF PatMatchEnd(s, p, pat) # 0
         THEN new \o ReSub(s, pat, new, PatMatchEnd(s, p, pat))
         ELSE <<s[p]>> \o ReSub(s, pat, new, p + 1)

\* lines 165-169
FixPseudoConstants(w) ==
    LET w1 == ReplaceAll(w, <<"T", "O", "D", "A", "Y", "(", ")">>, <<"T", "O", "D", "A", "Y">>, 1)
        w2 == ReSub(w1, PatMonthEnd, <<"<", " ", "N", "E", "X", "T", "_", "M", "O", "N", "T", "H">>, 1)
        w3 == ReSub(w2, PatMonthStart, <<">", " ", "L", "A", "S", "T", "_", "M", "O", "N", "T", "H">>, 1)
        w4 == ReSub(w3, PatLastDay, <<"<", " ", "N", "E", "X", "T", "_", "M", "O", "N", "T", "H">>, 1)
    IN  ReSub(w4, PatFirstDay, <<">", " ", "L", "A", "S", "T", "_", "M", "O", "N", "T", "H">>, 1)

\* \d{1,2} followed by the character c, at position i: the index of c, 0 if no match
OneOrTwoDigitsThen(s, i, c) ==
    IF i + 2 <= Len(s) /\ IsDigit(s[i]) /\ IsDigit(s[i + 1]) /\ s[i + 2] = c THEN i + 2
    ELSE IF i + 1 <= Len(s) /\ IsDigit(s[i]) /\ s[i + 1] = c THEN i + 1
    ELSE 0

\* line 172, '\d\d\d\d-\d{1,2}-\d{1,2}' at position i: the index of the closing
\* quote, 0 if no match
DateLiteralClose(s, i) ==
    IF /\ i + 5 <= Len(s)
       /\ s[i] = "'"
       /\ \A k \in 1..4 : IsDigit(s[i + k])
       /\ s[i + 5] = "-"
    THEN LET m == OneOrTwoDigitsThen(s, i + 6, "-")
         IN  IF m = 0 THEN 0 ELSE OneOrTwoDigitsThen(s, m + 1, "'")
    ELSE 0

\* lines 173-177 with the `while` written as an `if`: one literal is unquoted
UnquoteDates_OnePass(w) ==
    IF \E i \in 1..Len(w) : DateLiteralClose(w, i) # 0
    THEN LET first == CHOOSE i \in 1..Len(w) :
                          /\ DateLiteralClose(w, i) # 0
                          /\ \A k \in 1..(i - 1) : DateLiteralClose(w, k) = 0
             last == DateLiteralClose(w, first)
             w1 == Upto(w, last) \o From(w, last + 1)
         IN  Upto(w1, first) \o From(w1, first + 1)
    ELSE w

\* lines 173-177
RECURSIVE UnquoteDates(_)
UnquoteDates(w) ==
    IF \E i \in 1..Len(w) : DateLiteralClose(w, i) # 0
    THEN LET first == CHOOSE i \in 1..Len(w) :
                          /\ DateLiteralClose(w, i) # 0
                          /\ \A k \in 1..(i - 1) : DateLiteralClose(w, k) = 0
             last == DateLiteralClose(w, first)
             w1 == Upto(w, last) \o From(w, last + 1)
         IN  UnquoteDates(Upto(w1, first) \o From(w1, first + 1))
    ELSE w

FixWhere(w) == UnquoteDates(FixPseudoConstants(w))

(***************************************************************************)
(* Part 3: rebuild the statement, lines 184-195                            *)
(***************************************************************************)
Clause(keyword, o) == IF IsNone(o) THEN <<>> ELSE keyword \o Val(o) \o <<" ">>
LimitClause(o) == IF IsNone(o) THEN <<>> ELSE <<"L", "I", "M", "I", "T", " ">> \o Val(o)

Rebuild(ftext, t, w, g, o, l) ==
    <<"S", "E", "L", "E", "C", "T", " ">> \o ftext \o <<" ">>
        \o <<"F", "R", "O", "M", " ">> \o t \o <<" ">>
        \o Clause(<<"W", "H", "E", "R", "E", " ">>, w)
        \o Clause(<<"G", "R", "O", "U", "P", " ", "B", "Y", " ">>, g)
        \o Clause(<<"O", "R", "D", "E", "R", " ", "B", "Y", " ">>, o)
        \o LimitClause(l)

(***************************************************************************)
(* The calls that are explored                                             *)
(***************************************************************************)
\* the longest field list that is built
MaxFields == 2

\* field expressions a statement is built from
KnownColumn == <<"a", "1">>
Bogus1 == <<"b", "o", "g", "u", "s">>
Bogus2 == <<"z", "z">>
Star == <<"*">>
AliasedMax == <<"M", "a", "x", "(", "a", "1", ")", " ", "c", "m", "a", "x">>
FieldItems == {KnownColumn, ColId, Bogus1, Bogus2, Star}

\* aggregate field lists, used on their own
AggregateLists ==
    {<<AliasedMax>>, <<<<"c", "o", "u", "n", "t", "(", "*", ")">>>>, <<<<"C", "O", "U", "N", "T", "(", "*", ")">>>>, <<<<"C", "o", "u", "n", "t", "(", "I", "d", ")">>>>,
     <<<<"A", "V", "G", "(", "a", "1", ")">>>>, <<<<"s", "u", "m", "(", "a", "1", ")">>>>, <<<<"M", "i", "n", "(", "a", "1", ")", ",", " ", "m", "a", "x", "(", "a", "1", ")">>>>, <<<<"C", "O", "U", "N", "T", "_", "D", "I", "S", "T", "I", "N", "C", "T", "(", "a", "1", ")">>>>}

FieldLists ==
    UNION {[1..n -> FieldItems] : n \in 1..MaxFields} \cup AggregateLists

\* the tests' tables (src/sql2soql.py lines 205-212), cut down, and one schema
\* without an Id column
Account == <<"A", "c", "c", "o", "u", "n", "t">>
Task == <<"T", "a", "s", "k">>
SchemaWithId == (Account :> <<<<"I", "d">>, <<"a", "1">>, <<"a", "2">>, <<"O", "w", "n", "e", "r", "I", "d">>>>)
SchemaWithoutId == (Account :> <<<<"a", "1">>, <<"a", "2">>, <<"P", "a", "r", "e", "n", "t", "_", "I", "d", "_", "_", "c">>>>)
\* (dict, table named in the statement): a known table of each schema, and a table
\* that is not in the dict
CallTables == {<<SchemaWithId, Account>>, <<SchemaWithoutId, Account>>, <<SchemaWithId, Task>>}

\* values of hard_limit
Caps == {0, 4, 12}

\* the optional clauses that follow the table
WhereName == <<"N", "a", "m", "e", "=", "'", "F", "r", "e", "d", "'">>
WhereDate == <<"M", "o", "d", "D", "a", "t", "e", " ", ">", " ", "'", "2", "0", "2", "3", "-", "0", "1", "-", "0", "1", "'">>
GroupText == <<"i", "n", "d", "u", "s", "t", "r", "y">>
OrderText == <<"c", "m", "a", "x", " ", "D", "E", "S", "C">>
TailOf(w, g, o, l) == [where |-> w, groupby |-> g, orderby |-> o, limit |-> l]
Tails ==
    { TailOf(None, None, None, None),
      TailOf(Some(WhereName), Some(GroupText), Some(OrderText), None),
      TailOf(Some(WhereName), None, Some(OrderText), Some(<<"2", "0">>)),
      TailOf(Some(WhereDate), Some(GroupText), Some(OrderText), None),
      TailOf(None, None, None, Some(<<"0">>)) }

\* two ways of writing the keywords and the white space around them
Styles == {"upper", "mixed"}
Keyword(style, k) ==
    IF style = "upper"
    THEN CASE k = "select" -> <<"S", "E", "L", "E", "C", "T", " ">>
           [] k = "from" -> <<" ", "F", "R", "O", "M", " ">>
           [] k = "where" -> <<" ", "W", "H", "E", "R", "E", " ">>
           [] k = "groupby" -> <<" ", "G", "R", "O", "U", "P", " ", "B", "Y", " ">>
           [] k = "orderby" -> <<" ", "O", "R", "D", "E", "R", " ", "B", "Y", " ">>
           [] k = "limit" -> <<" ", "L", "I", "M", "I", "T", " ">>
           [] k = "end" -> <<>>
    ELSE CASE k = "select" -> <<"s", "e", "l", "e", "c", "t", " ", " ">>
           [] k = "from" -> <<"\n", "f", "r", "o", "m", " ">>
           [] k = "where" -> <<" ", "w", "h", "e", "r", "e", " ">>
           [] k = "groupby" -> <<" ", "G", "r", "o", "u", "p", " ", "B", "Y", " ">>
           [] k = "orderby" -> <<" ", "o", "r", "d", "e", "r", " ", " ", "b", "y", " ">>
           [] k = "limit" -> <<"\n", "l", "i", "m", "i", "t", " ">>
           [] k = "end" -> <<"\n">>

Opt(style, k, o) == IF IsNone(o) THEN <<>> ELSE Keyword(style, k) \o Val(o)

\* the statement text of a call
Statement(style, items, t, tail) ==
    Keyword(style, "select") \o Join(items, <<",", " ">>) \o Keyword(style, "from") \o t
        \o Opt(style, "where", tail.where)
        \o Opt(style, "groupby", tail.groupby)
        \o Opt(style, "orderby", tail.orderby)
        \o Opt(style, "limit", tail.limit)
        \o Keyword(style, "end")

\* statements in which the SELECT or the FROM boundary is missing
MissingBoundary ==
    { <<"a", "1", " ", "F", "R", "O", "M", " ", "A", "c", "c", "o", "u", "n", "t">>,
      <<"S", "E", "L", "E", "C", "T", " ", "a", "1", " ", "A", "c", "c", "o", "u", "n", "t">>,
      <<"S", "E", "L", "E", "C", "T", " ", "a", "1", ",", " ", "I", "d", " ", "I", "N", "T", "O", " ", "A", "c", "c", "o", "u", "n", "t", " ", "L", "I", "M", "I", "T", " ", "2", "0">>,
      <<"s", "e", "l", "e", "c", "t", "a", "1", " ", "f", "r", "o", "m", "A", "c", "c", "o", "u", "n", "t">>,
      <<"S", "E", "L", "E", "C", "T", " ", "*", " ", "W", "H", "E", "R", "E", " ", "M", "o", "d", "D", "a", "t", "e", " ", ">", " ", "'", "2", "0", "2", "3", "-", "0", "1", "-", "0", "1", "'", " ", "L", "I", "M", "I", "T", " ", "2", "0">> }
\* a statement with both boundaries and no table name
MissingTable == { <<"S", "E", "L", "E", "C", "T", " ", "a", "1", " ", "F", "R", "O", "M", " ">> }
Malformed == MissingBoundary \cup MissingTable

(***************************************************************************)
(* The state machine of one call                                           *)
(***************************************************************************)
Locals(p, s, f, lf, al, ag, t, w, g, o, l, r) ==
    /\ pc' = p
    /\ sql' = s
    /\ fields' = f
    /\ list_fields' = lf
    /\ aliased' = al
    /\ aggregate' = ag
    /\ table' = t
    /\ where' = w
    /\ groupby' = g
    /\ orderby' = o
    /\ limit' = l
    /\ result' = r

InitLocals ==
    /\ pc = "extract"
    /\ sql = sql_in
    /\ fields = <<>>
    /\ list_fields = <<>>
    /\ aliased = FALSE
    /\ aggregate = FALSE
    /\ table = <<>>
    /\ where = None
    /\ groupby = None
    /\ orderby = None
    /\ limit = None
    /\ result = None

InitWellFormed ==
    \E items \in FieldLists, ct \in CallTables, tail \in Tails, style \in Styles :
        /\ sql_in = Statement(style, items, ct[2], tail)
        /\ table2columns = ct[1]
        /\ call = [wellformed |-> TRUE, items |-> items, table |-> ct[2],
                   tail |-> tail, schema |-> ct[1]]

InitMalformed ==
    /\ sql_in \in Malformed
    /\ table2columns = SchemaWithId
    /\ call = [wellformed |-> FALSE, items |-> <<>>, table |-> Account,
               tail |-> TailOf(None, None, None, None), schema |-> SchemaWithId]

\* no call of ask_database is under way
QueryIdle ==
    /\ q_pc = "idle"
    /\ retries = 0
    /\ recs = None
    /\ sf = 1
    /\ sent = <<>>
    /\ answer = None
    /\ queries = 0

\* gpt.py lines 20-26, for the given history_max; no call of ask_gpt is under way
GptIdle(hm) ==
    /\ g_pc = "idle"
    /\ history = <<>>
    /\ history_max = hm
    /\ messages = <<>>
    /\ response = None
    /\ said = None
    /\ asks = 0
    /\ requested = 0
    /\ executed = 0
    /\ log = <<>>

Init ==
    /\ InitWellFormed \/ InitMalformed
    /\ QueryIdle
    /\ GptIdle(12)
    /\ add_id \in BOOLEAN
    /\ hard_limit \in Caps
    /\ InitLocals

Args == <<sql_in, add_id, hard_limit, call>>

\* lines 48-117
Extract ==
    /\ pc = "extract"
    /\ \E p \in {Parse(sql_in, hard_limit)} :
       /\ p.ok
       /\ Locals("wildcard", p.rest, p.fields, p.list_fields, FALSE, p.aggregate,
                 p.table, p.where, p.groupby, p.orderby, p.limit, None)
    /\ UNCHANGED <<queryVars, gptVars, Args, table2columns>>

\* lines 54, 59, 74: a mandatory pattern found nothing and the attribute access on
\* None raises; no value is returned
Raise ==
    /\ pc = "extract"
    /\ ~Parse(sql_in, hard_limit).ok
    /\ pc' = "raised"
    /\ UNCHANGED <<queryVars, gptVars, Args, table2columns, sql, fields, list_fields, aliased, aggregate,
                   table, where, groupby, orderby, limit, result>>

\* lines 123-130
Wildcard ==
    /\ pc = "wildcard"
    /\ pc' = "countstar"
    /\ IF IsWildcard(fields)
       THEN IF Known(table2columns, table)
            THEN /\ fields' = Join(table2columns[table], <<",", " ">>)
                 /\ list_fields' = table2columns[table]
                 /\ aliased' = TRUE
            ELSE /\ fields' = AllFields
                 /\ list_fields' = MarkIdPresent(list_fields)
                 /\ aliased' = FALSE
       ELSE UNCHANGED <<fields, list_fields, aliased>>
    /\ UNCHANGED <<queryVars, gptVars, Args, table2columns, sql, aggregate, table, where, groupby, orderby,
                   limit, result>>

\* lines 132-134
CountStar ==
    /\ pc = "countstar"
    /\ pc' = "forceid"
    /\ fields' = IF IsCountStar(fields) THEN <<"c", "o", "u", "n", "t", "(", ")">> ELSE fields
    /\ UNCHANGED <<queryVars, gptVars, Args, table2columns, sql, list_fields, aliased, aggregate, table, where,
                   groupby, orderby, limit, result>>

\* lines 136-140; list_fields.append writes through to the dict when list_fields
\* is the dict's list
ForceId ==
    /\ pc = "forceid"
    /\ pc' = "foreignkeys"
    /\ IF ForceIdApplies(list_fields, aggregate, add_id)
       THEN /\ fields' = fields \o <<",", " ", "I", "d">>
            /\ list_fields' = Append(list_fields, ColId)
            /\ table2columns' = IF aliased
                                THEN [table2columns EXCEPT ![table] = Append(@, ColId)]
                                ELSE table2columns
       ELSE UNCHANGED <<fields, list_fields, table2columns>>
    /\ UNCHANGED <<queryVars, gptVars, Args, sql, aliased, aggregate, table, where, groupby, orderby, limit,
                   result>>

\* lines 142-148
ForeignKeys ==
    /\ pc = "foreignkeys"
    /\ pc' = "prune"
    /\ IF ForeignKeysApply(aggregate, add_id, table2columns, table)
       THEN LET r == ForeignKeyLoop(table2columns[table], list_fields, fields, 1, aliased)
            IN  /\ fields' = r.fields
                /\ list_fields' = r.list_fields
                /\ table2columns' = IF aliased
                                    THEN [table2columns EXCEPT ![table] = r.list_fields]
                                    ELSE table2columns
       ELSE UNCHANGED <<fields, list_fields, table2columns>>
    /\ UNCHANGED <<queryVars, gptVars, Args, sql, aliased, aggregate, table, where, groupby, orderby, limit,
                   result>>

\* lines 150-159
Prune ==
    /\ pc = "prune"
    /\ pc' = "dates"
    /\ IF Known(table2columns, table)
       THEN LET kept == PruneLoop(list_fields, table2columns[table], 1, aliased)
            IN  /\ list_fields' = kept
                /\ fields' = Join(kept, <<",", " ">>)
                /\ table2columns' = IF aliased
                                    THEN [table2columns EXCEPT ![table] = kept]
                                    ELSE table2columns
       ELSE UNCHANGED <<fields, list_fields, table2columns>>
    /\ UNCHANGED <<queryVars, gptVars, Args, sql, aliased, aggregate, table, where, groupby, orderby, limit,
                   result>>

\* lines 161-177
Dates ==
    /\ pc = "dates"
    /\ pc' = "assemble"
    /\ where' = IF IsNone(where) THEN where ELSE Some(FixWhere(Val(where)))
    /\ UNCHANGED <<queryVars, gptVars, Args, table2columns, sql, fields, list_fields, aliased, aggregate, table,
                   groupby, orderby, limit, result>>

\* lines 184-195
Assemble ==
    /\ pc = "assemble"
    /\ pc' = "returned"
    /\ result' = Some(Rebuild(fields, table, where, groupby, orderby, limit))
    /\ UNCHANGED <<queryVars, gptVars, Args, table2columns, sql, fields, list_fields, aliased, aggregate, table,
                   where, groupby, orderby, limit>>

Next ==
    \/ Extract
    \/ Raise
    \/ Wildcard
    \/ CountStar
    \/ ForceId
    \/ ForeignKeys
    \/ Prune
    \/ Dates
    \/ Assemble

Spec == Init /\ [][Next]_vars

(***************************************************************************)
(* Properties of the translator                                            *)
(***************************************************************************)
Returned == pc = "returned"

\* what the caller wrote
InputFieldsText == Join(call.items, <<",", " ">>)
InputWildcard == call.wellformed /\ call.items = <<Star>>
InputAggregate == call.wellformed /\ call.items \in AggregateLists
InputKnown == call.wellformed /\ Known(call.schema, call.table)
InputLimit == call.tail.limit
ColumnsAtCall == call.schema[call.table]

\* the field list of the returned statement
OutputFieldsText == fields
OutputStatement == Val(result)
HasLimitKeyword(s) == \E i \in 1..Len(s) : MatchesAt(s, i, <<"l", "i", "m", "i", "t">>)

\* C1: when sql2soql returns, the caller's table2columns holds, for every table, the
\* same columns in the same order as when it was called.
C1_SchemaUnchanged == Returned => table2columns = call.schema

\* C2: for a table of the schema mapping, every entry of the output field list that
\* contains no parenthesis is one of that table's columns.
C2_OnlyKnownColumns ==
    (Returned /\ InputKnown) =>
        /\ OutputFieldsText = Join(list_fields, <<",", " ">>)
        /\ \A i \in 1..Len(list_fields) :
              ~Contains(list_fields[i], <<"(">>) => Member(table2columns[table], list_fields[i])

\* C3: for the aggregate field list `Max(a1) cmax` on a known table the output field
\* list is the input text unchanged, GROUP BY and ORDER BY are carried over, and no
\* LIMIT is added.
C3_AliasedAggregateKept ==
    (Returned /\ InputKnown /\ call.items = <<AliasedMax>>) =>
        /\ OutputFieldsText = AliasedMax
        /\ groupby = call.tail.groupby
        /\ orderby = call.tail.orderby
        /\ limit = InputLimit

\* C4: a field-list text equal to count(*), ignoring case, is translated to count(),
\* whether the table is in the schema mapping or not.
C4_CountStarRewritten ==
    (Returned /\ call.wellformed /\ LowerStr(InputFieldsText) = <<"c", "o", "u", "n", "t", "(", "*", ")">>) =>
        OutputFieldsText = <<"c", "o", "u", "n", "t", "(", ")">>

\* the key columns of the table at call time that the statement does not list
MissingKeys == {f \in {ColumnsAtCall[i] : i \in 1..Len(ColumnsAtCall)} :
                   IsKeyColumn(f) /\ ~Member(call.items, f)}
\* f is in the output field list, behind every field the statement listed
AppendedToOutput(f) ==
    /\ Member(list_fields, f)
    /\ \A i, j \in 1..Len(list_fields) :
          (list_fields[i] = f /\ Member(call.items, list_fields[j])) => j < i

\* C5 as stated: for a non-aggregate query on a known table, every schema column
\* ending in Id or Id__c that is not in the field list is appended, whatever add_id is.
C5_KeysAppendedAlways ==
    (Returned /\ InputKnown /\ ~InputAggregate) =>
        \A f \in MissingKeys : AppendedToOutput(f)

\* C5 amended: for a non-aggregate query on a known table, every schema column
\* ending in Id or Id__c that is not in the field list is appended when add_id is
\* on, and no field is added when add_id is off.
C5_KeysAppendedWhenAddId ==
    (Returned /\ InputKnown /\ ~InputAggregate) =>
        IF add_id
        THEN \A f \in MissingKeys : AppendedToOutput(f)
        ELSE \A i \in 1..Len(list_fields) :
                 \/ Member(call.items, list_fields[i])
                 \/ InputWildcard /\ Member(ColumnsAtCall, list_fields[i])
C5_Witness ==
    /\ Returned /\ InputKnown /\ ~InputAggregate /\ add_id
    /\ call.items = <<KnownColumn>>
    /\ call.schema = SchemaWithoutId
    /\ OutputFieldsText = <<"a", "1", ",", " ", "P", "a", "r", "e", "n", "t", "_", "I", "d", "_", "_", "c">>

\* C6: for the field list `*` on a known table the output field list is exactly the
\* table's column sequence at call time, in schema order.
C6_WildcardIsSchema ==
    (Returned /\ InputKnown /\ InputWildcard) =>
        OutputFieldsText = Join(ColumnsAtCall, <<",", " ">>)

\* C7: for the field list `*` on a table that is not in the schema mapping the output
\* field list is exactly FIELDS(ALL), with no key field added, and the returned table
\* is the table the statement names.
C7_WildcardUnknownIsSentinel ==
    (Returned /\ InputWildcard /\ ~InputKnown) =>
        /\ OutputFieldsText = <<"F", "I", "E", "L", "D", "S", "(", "A", "L", "L", ")">>
        /\ table = call.table
        /\ SubSeq(OutputStatement, 1, 24) = <<"S", "E", "L", "E", "C", "T", " ", "F", "I", "E", "L", "D", "S", "(", "A", "L", "L", ")", " ", "F", "R", "O", "M", " ">>
C7_Witness ==
    /\ Returned /\ InputWildcard /\ ~InputKnown /\ add_id
    /\ OutputStatement = <<"S", "E", "L", "E", "C", "T", " ", "F", "I", "E", "L", "D", "S", "(", "A", "L", "L", ")", " ", "F", "R", "O", "M", " ", "T", "a", "s", "k", " ", "L", "I", "M", "I", "T", " ", "1", "2">>

\* C8: an explicit LIMIT n of the input is the LIMIT of the output, whatever
\* hard_limit is and whether or not the query is aggregate.
C8_ExplicitLimitKept ==
    (Returned /\ call.wellformed /\ ~IsNone(InputLimit)) =>
        /\ limit = InputLimit
        /\ EndsWith(OutputStatement, <<" ", "L", "I", "M", "I", "T", " ">> \o Val(InputLimit))
C8_Witness ==
    /\ Returned /\ InputLimit = Some(<<"2", "0">>) /\ hard_limit = 12 /\ ~InputAggregate
    /\ EndsWith(OutputStatement, <<" ", "O", "R", "D", "E", "R", " ", "B", "Y", " ", "c", "m", "a", "x", " ", "D", "E", "S", "C", " ", "L", "I", "M", "I", "T", " ", "2", "0">>)

\* the number that a text of decimal digits denotes
DigitValue ==
    ("0" :> 0) @@ ("1" :> 1) @@ ("2" :> 2) @@ ("3" :> 3) @@ ("4" :> 4) @@
    ("5" :> 5) @@ ("6" :> 6) @@ ("7" :> 7) @@ ("8" :> 8) @@ ("9" :> 9)
RECURSIVE DecimalValue(_)
DecimalValue(ds) ==
    IF Len(ds) = 0 THEN 0
    ELSE 10 * DecimalValue(SubSeq(ds, 1, Len(ds) - 1)) + DigitValue[ds[Len(ds)]]
IsDecimal(ds) ==
    /\ Len(ds) > 0
    /\ \A i \in 1..Len(ds) : ds[i] \in DOMAIN DigitValue
    /\ (Len(ds) > 1 => ds[1] # "0")

\* C9: a non-aggregate input without an explicit LIMIT, translated with a positive
\* hard_limit c, gives a statement that ends with LIMIT c.
C9_DefaultCapApplied ==
    (Returned /\ call.wellformed /\ ~InputAggregate /\ IsNone(InputLimit) /\ hard_limit > 0) =>
        /\ ~IsNone(limit)
        /\ IsDecimal(Val(limit))
        /\ DecimalValue(Val(limit)) = hard_limit
        /\ EndsWith(OutputStatement, <<" ", "L", "I", "M", "I", "T", " ">> \o Val(limit))
C9_Witness ==
    /\ Returned /\ ~InputAggregate /\ IsNone(InputLimit) /\ hard_limit = 12
    /\ call.items = <<KnownColumn, Bogus1>>
    /\ EndsWith(OutputStatement, <<" ", "F", "R", "O", "M", " ", "A", "c", "c", "o", "u", "n", "t", " ", "L", "I", "M", "I", "T", " ", "1", "2">>)

\* C10: an aggregate input without an explicit LIMIT gives a statement without a
\* LIMIT clause, whatever hard_limit is.
C10_NoCapOnAggregates ==
    (Returned /\ InputAggregate /\ IsNone(InputLimit)) =>
        /\ IsNone(limit)
        /\ ~HasLimitKeyword(OutputStatement)
C10_Witness ==
    /\ Returned /\ InputAggregate /\ IsNone(InputLimit) /\ hard_limit = 12
    /\ call.items = <<AliasedMax>>
    /\ aggregate

\* C11 as stated: the limit of a result, when there is one, is a positive integer.
C11_LimitPositive ==
    (Returned /\ ~IsNone(limit)) =>
        /\ IsDecimal(Val(limit))
        /\ DecimalValue(Val(limit)) >= 1

\* C11 amended: the limit of a result, when there is one, is a non-empty text of
\* decimal digits; it denotes a positive integer when it comes from hard_limit, and
\* is the text of the statement's own LIMIT, which may be 0, otherwise.
C11_LimitDigitsPositiveDefault ==
    (Returned /\ call.wellformed /\ ~IsNone(limit)) =>
        /\ Len(Val(limit)) > 0
        /\ \A i \in 1..Len(Val(limit)) : Val(limit)[i] \in DOMAIN DigitValue
        /\ IF IsNone(InputLimit)
           THEN IsDecimal(Val(limit)) /\ DecimalValue(Val(limit)) >= 1
           ELSE limit = InputLimit
C11_Witness ==
    /\ Returned /\ InputLimit = Some(<<"0">>) /\ hard_limit = 12
    /\ OutputStatement = <<"S", "E", "L", "E", "C", "T", " ", "a", "1", ",", " ", "I", "d", ",", " ", "O", "w", "n", "e", "r", "I", "d", " ", "F", "R", "O", "M", " ", "A", "c", "c", "o", "u", "n", "t", " ", "L", "I", "M", "I", "T", " ", "0">>

\* the text holds `*` as a field (and not as the argument of a call)
HasStarField(text) ==
    \E i \in 1..Len(text) : text[i] = "*" /\ (i = 1 \/ text[i - 1] # "(")

\* C13: the field list of a returned statement never holds the field `*`.
C13_NoStarInOutput == Returned => ~HasStarField(OutputFieldsText)

\* C14: a statement without the SELECT or without the FROM boundary ends in a failure
\* at the start: no heuristic runs and nothing is returned.
C14_MalformedRaises ==
    (sql_in \in MissingBoundary) =>
        /\ pc \in {"extract", "raised"}
        /\ IsNone(result)
        /\ fields = <<>>
        /\ list_fields = <<>>
        /\ table = <<>>
        /\ table2columns = call.schema
C14_Witness == pc = "raised" /\ sql_in = <<"a", "1", " ", "F", "R", "O", "M", " ", "A", "c", "c", "o", "u", "n", "t">> /\ IsNone(result)

(***************************************************************************)
(* WHERE clauses with date literals                                        *)
(***************************************************************************)
\* the largest number of conditions in a WHERE clause that is built
MaxConds == 2

\* the pieces a condition is written from: text without a date literal, a date in
\* `quotes` pairs of single quotes, and a pseudo-constant with its SOQL form
Text(t) == [kind |-> "text", written |-> t, soql |-> t]
Quotes(n) == [i \in 1..n |-> "'"]
DateLiteral(d, n) == [kind |-> "date", written |-> Quotes(n) \o d \o Quotes(n), soql |-> d]
PseudoConstant(t, s) == [kind |-> "pseudo", written |-> t, soql |-> s]

Conditions ==
    { <<Text(<<"N", "a", "m", "e", "=", "'", "F", "r", "e", "d", "'">>)>>,
      <<Text(<<"M", "o", "d", "D", "a", "t", "e", " ", ">", " ">>), DateLiteral(<<"2", "0", "2", "3", "-", "0", "1", "-", "0", "1">>, 1)>>,
      <<Text(<<"d", " ", "<", " ">>), DateLiteral(<<"2", "0", "2", "3", "-", "1", "-", "5">>, 1)>>,
      <<Text(<<"d", " ", "=", " ">>), DateLiteral(<<"2", "0", "2", "3", "-", "1", "2", "-", "3", "1">>, 2)>>,
      <<Text(<<"d", " ", "I", "N", " ", "(">>), DateLiteral(<<"2", "0", "2", "3", "-", "0", "1", "-", "0", "1">>, 1), Text(<<",">>),
        DateLiteral(<<"2", "0", "2", "3", "-", "2", "-", "2", "8">>, 1), Text(<<")">>)>>,
      <<Text(<<"c", "o", "d", "e", " ", "=", " ", "'", "2", "0", "2", "3", "-", "0", "0", "1", "-", "0", "1", "'">>)>>,
      <<Text(<<"d", " ">>), PseudoConstant(<<"<", "=", " ", "T", "H", "I", "S", "_", "M", "O", "N", "T", "H", "_", "E", "N", "D">>, <<"<", " ", "N", "E", "X", "T", "_", "M", "O", "N", "T", "H">>)>>,
      <<Text(<<"O", "r", "d", "e", "r", "D", "a", "t", "e", " ", ">", " ">>), DateLiteral(<<"2", "0", "2", "3", "-", "0", "1", "-", "0", "1">>, 1)>>,
      <<Text(<<"N", "a", "m", "e", " ", "=", " ", "'", "A", "c", "m", "e", " ", "G", "r", "o", "u", "p", "'">>)>> }

RECURSIVE Pieces(_)
Pieces(conds) ==
    IF Len(conds) = 1 THEN conds[1]
    ELSE conds[1] \o <<Text(<<" ", "A", "N", "D", " ">>)>> \o Pieces(Tail(conds))

RECURSIVE Written(_)
Written(pieces) ==
    IF pieces = <<>> THEN <<>> ELSE pieces[1].written \o Written(Tail(pieces))

WhereTexts == UNION { [1..n -> Conditions] : n \in 1..MaxConds }

\* what follows the WHERE clause
DateTails == { <<None, None>>, <<Some(OrderText), Some(<<"2", "0">>)>> }

InitDates ==
    /\ \/ \E conds \in WhereTexts, dt \in DateTails, style \in Styles :
            \E tail \in {TailOf(Some(Written(Pieces(conds))), None, dt[1], dt[2])} :
               /\ sql_in = Statement(style, <<KnownColumn>>, Account, tail)
               /\ call = [wellformed |-> TRUE, items |-> <<KnownColumn>>, table |-> Account,
                          tail |-> tail, schema |-> SchemaWithId, pieces |-> Pieces(conds)]
       \/ /\ sql_in \in MissingBoundary
          /\ call = [wellformed |-> FALSE, items |-> <<>>, table |-> Account,
                     tail |-> TailOf(None, None, None, None), schema |-> SchemaWithId,
                     pieces |-> <<>>]
    /\ table2columns = SchemaWithId
    /\ add_id = TRUE
    /\ hard_limit \in {0, 4}
    /\ InitLocals
    /\ QueryIdle
    /\ GptIdle(12)

SpecDates == InitDates /\ [][Next]_vars

\* a single-quoted YYYY-M-D text (month and day of one or two digits) starts at i
QuotedDateAt(s, i) ==
    \E m \in 1..2, d \in 1..2 :
        LET n == 6 + m + d
        IN  /\ i + n + 1 <= Len(s)
            /\ s[i] = "'"
            /\ s[i + n + 1] = "'"
            /\ \A k \in 1..n : IF k \in {5, 6 + m} THEN s[i + k] = "-" ELSE IsDigit(s[i + k])
HasQuotedDate(s) == \E i \in 1..Len(s) : QuotedDateAt(s, i)

\* where the WHERE clause written as w ends: at the first GROUP, ORDER or LIMIT in it
ClauseCut(w) ==
    LET hits == {i \in 1..Len(w) : \E k \in {<<"g", "r", "o", "u", "p">>, <<"o", "r", "d", "e", "r">>, <<"l", "i", "m", "i", "t">>} : MatchesAt(w, i, k)}
    IN  IF hits = {} THEN Len(w) + 1 ELSE CHOOSE i \in hits : \A j \in hits : i <= j

\* the pieces in SOQL form, as far as they are written before position cut
RECURSIVE SoqlUpTo(_, _)
SoqlUpTo(pieces, cut) ==
    IF pieces = <<>> \/ cut <= 1 THEN <<>>
    ELSE LET p == pieces[1]
         IN  IF Len(p.written) < cut
             THEN p.soql \o SoqlUpTo(Tail(pieces), cut - Len(p.written))
             ELSE SubSeq(p.written, 1, cut - 1)

ExpectedWhere == Strip(SoqlUpTo(call.pieces, ClauseCut(Written(call.pieces))))

MaxQueries == 2

\* self.row_limit
row_limit == 5

\* self.table2columns after __init__, one of its tables
OpportunityContactRole == <<"O", "p", "p", "o", "r", "t", "u", "n", "i", "t", "y", "C", "o", "n", "t", "a", "c", "t", "R", "o", "l", "e">>
SalesforceSchema ==
    (OpportunityContactRole :>
        <<<<"C", "o", "n", "t", "a", "c", "t", "I", "d">>, <<"I", "d">>, <<"I", "s", "P", "r", "i", "m", "a", "r", "y">>, <<"O", "p", "p", "o", "r", "t", "u", "n", "i", "t", "y", "I", "d">>, <<"R", "o", "l", "e">>>>)

\* the statements the model asks for: how each is written, as for sql2soql above
QueryCalls ==
    { [wellformed |-> TRUE, items |-> <<<<"R", "o", "l", "e">>>>, table |-> OpportunityContactRole,
       tail |-> TailOf(None, None, None, None)],
      [wellformed |-> TRUE, items |-> <<Star>>, table |-> OpportunityContactRole,
       tail |-> TailOf(Some(<<"I", "s", "P", "r", "i", "m", "a", "r", "y", " ", "=", " ", "t", "r", "u", "e">>), None, None, None)],
      [wellformed |-> TRUE, items |-> <<<<"S", "u", "b", "j", "e", "c", "t">>>>, table |-> Task,
       tail |-> TailOf(None, None, None, Some(<<"2", "0">>))],
      [wellformed |-> FALSE, items |-> <<>>, table |-> OpportunityContactRole,
       tail |-> TailOf(None, None, None, None)] }

\* values of a record of the remote store: a text, or a related record
Str(t) == [kind |-> "str", text |-> t, items |-> <<>>]
OrderedDict(items) == [kind |-> "OrderedDict", text |-> <<>>, items |-> items]

\* recs['records'] of the answers of the remote store that are explored
RecordLists ==
    { <<>>,
      << << <<<<"a", "t", "t", "r", "i", "b", "u", "t", "e", "s">>, OrderedDict(<< <<<<"t", "y", "p", "e">>, Str(<<"O", "p", "p", "o", "r", "t", "u", "n", "i", "t", "y", "C", "o", "n", "t", "a", "c", "t", "R", "o", "l", "e">>)>> >>)>>,
            <<<<"R", "o", "l", "e">>, Str(<<"B", "u", "y", "e", "r">>)>>,
            <<<<"I", "d">>, Str(<<"0", "0", "K", "1">>)>>,
            <<<<"C", "o", "n", "t", "a", "c", "t">>,
              OrderedDict(<< <<<<"a", "t", "t", "r", "i", "b", "u", "t", "e", "s">>, OrderedDict(<< <<<<"t", "y", "p", "e">>, Str(<<"C", "o", "n", "t", "a", "c", "t">>)>> >>)>>,
                             <<<<"N", "a", "m", "e">>, Str(<<"A", "n", "n">>)>> >>)>> >> >> }

\* what sf.query and reconnect raise
ExpiredSession == [type |-> "SalesforceExpiredSession", text |-> <<"S", "e", "s", "s", "i", "o", "n", " ", "e", "x", "p", "i", "r", "e", "d", " ", "o", "r", " ", "i", "n", "v", "a", "l", "i", "d">>]
ConnectionReset == [type |-> "ConnectionResetError", text |-> <<"C", "o", "n", "n", "e", "c", "t", "i", "o", "n", " ", "r", "e", "s", "e", "t", " ", "b", "y", " ", "p", "e", "e", "r">>]
MalformedRequest == [type |-> "SalesforceMalformedRequest", text |-> <<"M", "a", "l", "f", "o", "r", "m", "e", "d", " ", "r", "e", "q", "u", "e", "s", "t">>]
AuthenticationFailed == [type |-> "SalesforceAuthenticationFailed", text |-> <<"I", "N", "V", "A", "L", "I", "D", "_", "L", "O", "G", "I", "N">>]
QueryErrors == {ExpiredSession, ConnectionReset, MalformedRequest}
\* the message of the AttributeError of sql2soql lines 54, 59, 74
NoneHasNoEnd == <<"'", "N", "o", "n", "e", "T", "y", "p", "e", "'", " ", "o", "b", "j", "e", "c", "t", " ", "h", "a", "s", " ", "n", "o", " ", "a", "t", "t", "r", "i", "b", "u", "t", "e", " ", "'", "e", "n", "d", "'">>

\* line 202: the exceptions the loop handles
Retryable(err) == err.type \in {"SalesforceExpiredSession", "ConnectionResetError"}

\* line 198 with `retries > 0` written as `retries >= 0`
LoopRuns_OnceMore(r) == r >= 0
\* line 198
LoopRuns(r) == r > 0

\* row[k] = v on a dict kept as the list of its (key, value) pairs
DictSet(row, k, v) ==
    IF \E i \in 1..Len(row) : row[i][1] = k
    THEN [i \in 1..Len(row) |-> IF row[i][1] = k THEN <<k, v>> ELSE row[i]]
    ELSE Append(row, <<k, v>>)

\* lines 217-219
RECURSIVE FlattenRelated(_, _, _)
FlattenRelated(row, k, items) ==
    IF items = <<>> THEN row
    ELSE FlattenRelated(IF items[1][1] = <<"a", "t", "t", "r", "i", "b", "u", "t", "e", "s">> THEN row
                        ELSE DictSet(row, k \o <<".">> \o items[1][1], items[1][2]),
                        k, Tail(items))

\* lines 212-221
RECURSIVE FlattenRecord(_, _)
FlattenRecord(row, r) ==
    IF r = <<>> THEN row
    ELSE LET k == r[1][1]
             v == r[1][2]
         IN  FlattenRecord(IF k = <<"a", "t", "t", "r", "i", "b", "u", "t", "e", "s">> THEN row
                           ELSE IF v.kind = "OrderedDict" THEN FlattenRelated(row, k, v.items)
                           ELSE DictSet(row, k, v),
                           Tail(r))

\* lines 209-225
Flatten(optrecs) ==
    IF IsNone(optrecs) THEN <<>>
    ELSE [i \in 1..Len(Val(optrecs)) |-> FlattenRecord(<<>>, Val(optrecs)[i])]

\* str(result) for a list of dicts of texts; the repr of a str without quotes or
\* escapes in it is the str in single quotes
ReprRow(row) ==
    <<"{">> \o Join([i \in 1..Len(row) |->
                      <<"'">> \o row[i][1] \o <<"'", ":", " ", "'">> \o row[i][2].text \o <<"'">>], <<",", " ">>)
         \o <<"}">>
StrResult(rows) == <<"[">> \o Join([i \in 1..Len(rows) |-> ReprRow(rows[i])], <<",", " ">>) \o <<"]">>

\* line 237
QueryFailed(text) == <<"q", "u", "e", "r", "y", " ", "f", "a", "i", "l", "e", "d", " ", "w", "i", "t", "h", " ", "e", "r", "r", "o", "r", ":", " ">> \o text

\* sql2soql has not been called
TranslatorIdle(schema) ==
    /\ sql_in = <<>>
    /\ table2columns = schema
    /\ add_id = TRUE
    /\ hard_limit = row_limit
    /\ call = [wellformed |-> FALSE, items |-> <<>>, table |-> <<>>,
               tail |-> TailOf(None, None, None, None), schema |-> schema]
    /\ pc = "idle"
    /\ sql = <<>>
    /\ fields = <<>>
    /\ list_fields = <<>>
    /\ aliased = FALSE
    /\ aggregate = FALSE
    /\ table = <<>>
    /\ where = None
    /\ groupby = None
    /\ orderby = None
    /\ limit = None
    /\ result = None

InitQuery == TranslatorIdle(SalesforceSchema) /\ QueryIdle /\ GptIdle(12)

\* lines 232-235 and 185-189: ask_database calls do_query, which calls sql2soql
AskDatabase ==
    /\ q_pc \in {"idle", "done"}
    /\ queries < MaxQueries
    /\ queries' = queries + 1
    /\ \E c \in QueryCalls :
          /\ sql_in' = IF c.wellformed THEN Statement("upper", c.items, c.table, c.tail)
                        ELSE <<"S", "E", "L", "E", "C", "T", " ", "R", "o", "l", "e", " ", "O", "p", "p", "o", "r", "t", "u", "n", "i", "t", "y", "C", "o", "n", "t", "a", "c", "t", "R", "o", "l", "e">>
          /\ call' = [wellformed |-> c.wellformed, items |-> c.items, table |-> c.table,
                      tail |-> c.tail, schema |-> table2columns]
    /\ add_id' = TRUE
    /\ hard_limit' = row_limit
    /\ Locals("extract", sql_in', <<>>, <<>>, FALSE, FALSE, <<>>, None, None, None, None, None)
    /\ q_pc' = "translate"
    /\ retries' = 0
    /\ recs' = None
    /\ sent' = <<>>
    /\ answer' = None
    /\ UNCHANGED <<table2columns, sf, gptVars>>

\* lines 189, 236-238: the AttributeError of sql2soql leaves do_query and is caught
TranslationRaises ==
    /\ q_pc = "translate"
    /\ pc = "raised"
    /\ q_pc' = "done"
    /\ answer' = Some(QueryFailed(NoneHasNoEnd))
    /\ UNCHANGED <<Args, table2columns, sql, fields, list_fields, aliased, aggregate, table,
                   where, groupby, orderby, limit, result, pc>>
    /\ UNCHANGED <<retries, recs, sf, sent, queries, gptVars>>

\* lines 192-196
EnterLoop ==
    /\ q_pc = "translate"
    /\ pc = "returned"
    /\ q_pc' = "loop"
    /\ retries' = 3
    /\ recs' = None
    /\ sf' = IF sf = 0 THEN 1 ELSE sf
    /\ UNCHANGED <<Args, table2columns, sql, fields, list_fields, aliased, aggregate, table,
                   where, groupby, orderby, limit, result, pc>>
    /\ UNCHANGED <<sent, answer, queries, gptVars>>

\* lines 198-201: the store answers and the loop is left
QueryReturns ==
    /\ q_pc = "loop"
    /\ LoopRuns(retries)
    /\ \E records \in RecordLists :
          /\ recs' = Some(records)
          /\ sent' = Append(sent, [query |-> Val(result), session |-> sf, outcome |-> "records"])
    /\ q_pc' = "collect"
    /\ UNCHANGED <<Args, table2columns, sql, fields, list_fields, aliased, aggregate, table,
                   where, groupby, orderby, limit, result, pc>>
    /\ UNCHANGED <<retries, sf, answer, queries, gptVars>>

\* lines 198-206 and 236-238: sf.query raises. A handled exception is followed by a
\* reconnect, which may raise in its turn; what the loop does not handle, and what
\* reconnect raises, leaves do_query and is caught by ask_database
QueryFails ==
    /\ q_pc = "loop"
    /\ LoopRuns(retries)
    /\ \E err \in QueryErrors, login \in {None, Some(AuthenticationFailed)} :
          /\ sent' = Append(sent, [query |-> Val(result), session |-> sf, outcome |-> err.type])
          /\ IF Retryable(err) /\ IsNone(login)
             THEN /\ sf' = sf + 1
                  /\ retries' = retries - 1
                  /\ UNCHANGED <<q_pc, answer>>
             ELSE /\ q_pc' = "done"
                  /\ answer' = Some(QueryFailed(IF Retryable(err) THEN Val(login).text
                                                ELSE err.text))
                  /\ UNCHANGED <<sf, retries>>
    /\ UNCHANGED <<Args, table2columns, sql, fields, list_fields, aliased, aggregate, table,
                   where, groupby, orderby, limit, result, pc>>
    /\ UNCHANGED <<recs, queries, gptVars>>

\* lines 208-230 and 235: the rows are built from recs, or none when recs is None, and
\* ask_database returns their text
Collect ==
    /\ IF q_pc = "loop" THEN ~LoopRuns(retries) ELSE q_pc = "collect"
    /\ q_pc' = "done"
    /\ answer' = Some(StrResult(Flatten(recs)))
    /\ UNCHANGED <<Args, table2columns, sql, fields, list_fields, aliased, aggregate, table,
                   where, groupby, orderby, limit, result, pc>>
    /\ UNCHANGED <<retries, recs, sf, sent, queries, gptVars>>

NextQuery ==
    \/ AskDatabase
    \/ Extract
    \/ Raise
    \/ Wildcard
    \/ CountStar
    \/ ForceId
    \/ ForeignKeys
    \/ Prune
    \/ Dates
    \/ Assemble
    \/ TranslationRaises
    \/ EnterLoop
    \/ QueryReturns
    \/ QueryFails
    \/ Collect

SpecQuery == InitQuery /\ [][NextQuery]_vars

\* the attempts of the call: every one was answered by a session-expired or a
\* connection-reset failure, and the loop has used up its retries
Exhausted ==
    /\ retries = 0
    /\ Len(sent) > 0
    /\ \A i \in 1..Len(sent) : sent[i].outcome \in {"SalesforceExpiredSession", "ConnectionResetError"}

\* C15: when every attempt failed with a session-expired or connection-reset condition
\* and the retries are used up, ask_database returns, and what it returns differs from
\* what it returns for a query that succeeded with zero rows.
C15_ExhaustionSurfaced ==
    (q_pc = "done" /\ Exhausted) =>
        /\ ~IsNone(answer)
        /\ Val(answer) # StrResult(Flatten(Some(<<>>)))

\* C16: the store receives the translated statement at most 3 times in a call; every
\* attempt but the first follows a session-expired or connection-reset failure and uses
\* a new session; every attempt carries the statement sql2soql returned; nothing is
\* sent after an attempt that succeeded.
C16_BoundedRetry ==
    /\ Len(sent) <= 3
    /\ \A i \in 1..Len(sent) :
          /\ sent[i].query = OutputStatement
          /\ i > 1 => /\ sent[i - 1].outcome \in {"SalesforceExpiredSession", "ConnectionResetError"}
                      /\ sent[i].session = sent[i - 1].session + 1
          /\ sent[i].outcome = "records" => /\ i = Len(sent)
                                            /\ q_pc \in {"collect", "done"}
    /\ (q_pc = "loop" /\ Len(sent) > 0) => sf = sent[Len(sent)].session + 1
C16_Witness ==
    /\ q_pc = "done"
    /\ Len(sent) = 3
    /\ sent[1].outcome = "SalesforceExpiredSession"
    /\ sent[2].outcome = "ConnectionResetError"
    /\ sent[3].outcome = "records"
    /\ sent[3].query = <<"S", "E", "L", "E", "C", "T", " ", "R", "o", "l", "e", ",", " ", "I", "d", ",", " ", "C", "o", "n", "t", "a", "c", "t", "I", "d", ",", " ", "O", "p", "p", "o", "r", "t", "u", "n", "i", "t", "y", "I", "d", " ", "F", "R", "O", "M", " ", "O", "p", "p", "o", "r", "t", "u", "n", "i", "t", "y", "C", "o", "n", "t", "a", "c", "t", "R", "o", "l", "e", " ", "L", "I", "M", "I", "T", " ", "5">>
    /\ answer = Some(<<"[", "{", "'", "R", "o", "l", "e", "'", ":", " ", "'", "B", "u", "y", "e", "r", "'", ",", " ", "'", "I", "d", "'", ":", " ", "'", "0", "0", "K", "1", "'", ",", " ", "'", "C", "o", "n", "t", "a", "c", "t", ".", "N", "a", "m", "e", "'", ":", " ", "'", "A", "n", "n", "'", "}", "]">>)

(***************************************************************************)
(* OpenAI.ask_gpt and call_gpt_handle_functions, src/gpt.py                *)
(***************************************************************************)
\* the largest number of calls of ask_gpt in a run
MaxAsks == 2
\* the largest number of function calls the model asks for in one call of ask_gpt
MaxCalls == 2

\* a message: a dict with the keys role, name, content, function_call; a key that is
\* absent reads as None
Message(role, name, content, function_call) ==
    [role |-> role, name |-> name, content |-> content, function_call |-> function_call]

system_prompt == <<"Y", "o", "u", " ", "a", "r", "e", " ", "a", " ", "h", "e", "l", "p", "f", "u", "l", " ", "a", "s", "s", "i", "s", "t", "a", "n", "t", ".">>

\* the arguments text of a function call: a JSON object, with the value of its
\* "query" member if it has one, or text that is no JSON
Json(query) == [json |-> TRUE, query |-> query]
NoJson == [json |-> FALSE, query |-> None]
FunctionCall(name, arguments) == [name |-> name, arguments |-> arguments]

\* what the model answers: a text, or the request of a function call
ModelMessages ==
    { Message("assistant", None, Some(<<"Y", "o", "u", " ", "h", "a", "v", "e", " ", "t", "w", "o", ".">>), None),
      Message("assistant", None, None,
              Some(FunctionCall(<<"a", "s", "k", "_", "d", "a", "t", "a", "b", "a", "s", "e">>, Json(Some(<<"S", "E", "L", "E", "C", "T", " ", "N", "a", "m", "e", " ", "F", "R", "O", "M", " ", "O", "p", "p", "o", "r", "t", "u", "n", "i", "t", "y">>))))),
      Message("assistant", None, Some(<<"L", "e", "t", " ", "m", "e", " ", "l", "o", "o", "k", ".">>),
              Some(FunctionCall(<<"a", "s", "k", "_", "w", "e", "a", "t", "h", "e", "r">>, Json(None)))),
      Message("assistant", None, None, Some(FunctionCall(<<"a", "s", "k", "_", "d", "a", "t", "a", "b", "a", "s", "e">>, NoJson))) }

\* lines 61-70: the response made up when the service is unavailable or times out
Overloaded ==
    Message("assistant", None,
            Some(<<"I", "'", "m", " ", "v", "e", "r", "y", " ", "s", "o", "r", "r", "y", ",", " ", "b", "u", "t", " ", "O", "p", "e", "n", "A", "I", " ", "i", "s", " ", "o", "v", "e", "r", "l", "o", "a", "d", "e", "d", " ", "a", "t", " ", "t", "h", "e", " ", "m", "o", "m", "e", "n", "t", ".", " ", " ", "P", "l", "e", "a", "s", "e", " ", "a", "s", "k", " ", "a", "g", "a", "i", "n">>),
            None)

\* what funcs.ask_database returns
DatabaseAnswers == { <<"[", "{", "'", "N", "a", "m", "e", "'", ":", " ", "'", "E", "d", "g", "e", "'", "}", "]">> }

\* line 85 taking every response for a regular one
IsFunctionCall_Never(message) == FALSE
\* line 85
IsFunctionCall(message) == ~IsNone(message.function_call)

\* lines 92-99
short_resp(message) ==
    Message("assistant", None, None,
            Some(FunctionCall(Val(message.function_call).name,
                              Val(message.function_call).arguments)))

\* line 110
func_results(message, results) ==
    Message("function", Some(Val(message.function_call).name), Some(results), None)

\* lines 29-31: whether the function can be executed: json.loads(arguments)["query"]
\* raises unless the text is a JSON object with that member
Executes(message) ==
    Val(message.function_call).name = <<"a", "s", "k", "_", "d", "a", "t", "a", "b", "a", "s", "e">>
        => /\ Val(message.function_call).arguments.json
           /\ ~IsNone(Val(message.function_call).arguments.query)

\* lines 29-35: what the function may return
Results(message) ==
    IF Val(message.function_call).name = <<"a", "s", "k", "_", "d", "a", "t", "a", "b", "a", "s", "e">> THEN DatabaseAnswers
    ELSE { <<"E", "r", "r", "o", "r", ":", " ", "f", "u", "n", "c", "t", "i", "o", "n", " ">> \o Val(message.function_call).name \o <<" ", "d", "o", "e", "s", " ", "n", "o", "t", " ", "e", "x", "i", "s", "t">> }

\* line 148 keeping the oldest entries
Trim_Oldest(h, n) == IF n = 0 \/ n >= Len(h) THEN h ELSE SubSeq(h, 1, n)
\* line 148: h[-n:] for n >= 0; h[-0:] is the whole list
Trim(h, n) == IF n = 0 \/ n >= Len(h) THEN h ELSE SubSeq(h, Len(h) - n + 1, Len(h))

\* the variables of the translator and of the query loop, which ask_gpt leaves alone
databaseVars ==
    <<sql_in, table2columns, add_id, hard_limit, call, pc, sql, fields, list_fields,
      aliased, aggregate, table, where, groupby, orderby, limit, result, queryVars>>

\* lines 20-26: the constructor is given a history_max, 12 when none is
InitGpt ==
    /\ TranslatorIdle(SalesforceSchema)
    /\ QueryIdle
    /\ \E hm \in {0, 1, 3, 12} : GptIdle(hm)

\* lines 124-139, up to the call of call_gpt
AskGpt ==
    /\ g_pc = "idle"
    /\ asks < MaxAsks
    /\ asks' = asks + 1
    /\ \E user \in { <<"W", "h", "a", "t", " ", "a", "r", "e", " ", "m", "y", " ", "o", "p", "e", "n", " ", "o", "p", "p", "o", "r", "t", "u", "n", "i", "t", "i", "e", "s", "?">> } :
          /\ history' = Append(history, Message("user", None, Some(user), None))
          /\ log' = Append(log, Message("user", None, Some(user), None))
    /\ messages' = <<Message("system", None, Some(system_prompt), None)>> \o history'
    /\ g_pc' = "call_gpt"
    /\ response' = None
    /\ said' = None
    /\ requested' = 0
    /\ executed' = 0
    /\ UNCHANGED databaseVars
    /\ UNCHANGED <<history_max>>

\* lines 38-58 and 74, 79-83: the model responds
CallGpt ==
    /\ g_pc = "call_gpt"
    /\ \E message \in ModelMessages :
          /\ IsFunctionCall(message) => requested < MaxCalls
          /\ response' = Some(message)
    /\ g_pc' = "responded"
    /\ UNCHANGED databaseVars
    /\ UNCHANGED <<history, history_max, messages, said, asks, requested, executed, log>>

\* lines 60-74, 79-83: the service is unavailable or the request times out
CallGptOverloaded ==
    /\ g_pc = "call_gpt"
    /\ response' = Some(Overloaded)
    /\ g_pc' = "responded"
    /\ UNCHANGED databaseVars
    /\ UNCHANGED <<history, history_max, messages, said, asks, requested, executed, log>>

\* line 56: any other error of the service leaves ask_gpt
CallGptRaises ==
    /\ g_pc = "call_gpt"
    /\ g_pc' = "raised"
    /\ UNCHANGED databaseVars
    /\ UNCHANGED <<history, history_max, messages, response, said, asks, requested, executed,
                   log>>

\* lines 85-86 and 141-150: the response is no function call; ask_gpt appends the answer,
\* trims the history and returns
ReturnAnswer ==
    /\ g_pc = "responded"
    /\ ~IsFunctionCall(Val(response))
    /\ history' = Trim(Append(history, Message("assistant", None, Val(response).content, None)),
                       history_max)
    /\ log' = Append(log, Message("assistant", None, Val(response).content, None))
    /\ said' = Val(response).content
    /\ g_pc' = "idle"
    /\ UNCHANGED databaseVars
    /\ UNCHANGED <<history_max, messages, response, asks, requested, executed>>

\* lines 88-103: the summary of the function call is appended
RecordFunctionCall ==
    /\ g_pc = "responded"
    /\ IsFunctionCall(Val(response))
    /\ history' = Append(history, short_resp(Val(response)))
    /\ messages' = Append(messages, short_resp(Val(response)))
    /\ log' = Append(log, short_resp(Val(response)))
    /\ requested' = requested + 1
    /\ g_pc' = "execute"
    /\ UNCHANGED databaseVars
    /\ UNCHANGED <<history_max, response, said, asks, executed>>

\* lines 107-121 and 28-35: the function is executed and its result appended; then
\* call_gpt_handle_functions calls itself
ExecuteFunctionCall ==
    /\ g_pc = "execute"
    /\ Executes(Val(response))
    /\ \E results \in Results(Val(response)) :
          /\ history' = Append(history, func_results(Val(response), results))
          /\ messages' = Append(messages, func_results(Val(response), results))
          /\ log' = Append(log, func_results(Val(response), results))
    /\ executed' = executed + 1
    /\ g_pc' = "call_gpt"
    /\ UNCHANGED databaseVars
    /\ UNCHANGED <<history_max, response, said, asks, requested>>

\* line 30: the arguments are no JSON or hold no query; the error leaves ask_gpt
ExecuteRaises ==
    /\ g_pc = "execute"
    /\ ~Executes(Val(response))
    /\ g_pc' = "raised"
    /\ UNCHANGED databaseVars
    /\ UNCHANGED <<history, history_max, messages, response, said, asks, requested, executed,
                   log>>

NextGpt ==
    \/ AskGpt
    \/ CallGpt
    \/ CallGptOverloaded
    \/ CallGptRaises
    \/ ReturnAnswer
    \/ RecordFunctionCall
    \/ ExecuteFunctionCall
    \/ ExecuteRaises

SpecGpt == InitGpt /\ [][NextGpt]_vars

\* ask_gpt has returned and has not been called again
GptReturned == g_pc = "idle" /\ asks > 0

\* the last n entries of a list, or all of it when it has fewer
LastEntries(h, n) == [i \in 1..(IF n < Len(h) THEN n ELSE Len(h)) |->
                         h[i + (IF n < Len(h) THEN Len(h) - n ELSE 0)]]

\* the last two entries of h are the summary of function call fc and a result of it
EndsWithCallAndResult(h, fc) ==
    /\ Len(h) >= 2
    /\ h[Len(h) - 1].role = "assistant"
    /\ h[Len(h) - 1].function_call = Some(fc)
    /\ h[Len(h)].role = "function"
    /\ h[Len(h)].name = Some(fc.name)
    /\ ~IsNone(h[Len(h)].content)

\* C17: when ask_gpt has returned, the latest response of the model is no function call
\* and holds the returned answer, and every function call asked for was executed; when
\* the model is called after a function call, the history and the messages sent both end
\* with the summary of that call followed by its result, and the messages sent are the
\* system prompt followed by the history.
C17_FunctionCallsHandled ==
    /\ GptReturned =>
          /\ ~IsNone(response)
          /\ IsNone(Val(response).function_call)
          /\ said = Val(response).content
          /\ executed = requested
    /\ (g_pc = "call_gpt" /\ ~IsNone(response)) =>
          /\ ~IsNone(Val(response).function_call)
          /\ executed = requested
          /\ EndsWithCallAndResult(history, Val(Val(response).function_call))
          /\ EndsWithCallAndResult(messages, Val(Val(response).function_call))
    /\ g_pc = "call_gpt" => Tail(messages) = history
C17_Witness ==
    /\ GptReturned
    /\ executed = 2
    /\ said = Some(<<"Y", "o", "u", " ", "h", "a", "v", "e", " ", "t", "w", "o", ".">>)
    /\ Len(messages) = 6
    /\ messages[4].content = Some(<<"E", "r", "r", "o", "r", ":", " ", "f", "u", "n", "c", "t", "i", "o", "n", " ", "a", "s", "k", "_", "w", "e", "a", "t", "h", "e", "r", " ", "d", "o", "e", "s", " ", "n", "o", "t", " ", "e", "x", "i", "s", "t">>)
    /\ messages[6].content = Some(<<"[", "{", "'", "N", "a", "m", "e", "'", ":", " ", "'", "E", "d", "g", "e", "'", "}", "]">>)

\* C18: for a positive history_max, when ask_gpt has returned the history holds at most
\* history_max entries: the latest entries ever appended, in their order, the last of
\* them the assistant's answer just returned.
C18_HistoryTrimmed ==
    (GptReturned /\ history_max > 0) =>
        /\ Len(history) <= history_max
        /\ Len(history) >= 1
        /\ history = LastEntries(log, history_max)
        /\ history[Len(history)] = Message("assistant", None, said, None)
C18_Witness ==
    /\ GptReturned
    /\ history_max = 3
    /\ asks = 2
    /\ Len(log) = 8
    /\ Len(history) = 3
    /\ history[1].role = "assistant" /\ ~IsNone(history[1].function_call)
    /\ history[2].role = "function"
    /\ history[3].role = "assistant" /\ history[3].content = said

=============================================================================
